---- MODULE Spec2Model ----
(***************************************************************************)
(* Session-bridging relay of interactive_sketchpad: the shared registry    *)
(* (state.py), the sketchpad WebSocket endpoint, the image push            *)
(* (send_image_to_sketchpad_ws) and the upload route (upload_image) of     *)
(* main.py, running as coroutines of one cooperative event loop.  A step   *)
(* of the model is the code a coroutine runs between two await points.     *)
(***************************************************************************)
EXTENDS Integers, Sequences, FiniteSets, TLC

\* ------------------------------------------------------------------ bounds
NumHandles == 2
NumUploads == 1
NumDelivers == 1
MaxActivations == 2
MaxRegistryCalls == 4

Handles == 1..NumHandles
Uploads == 1..NumUploads
Delivers == 1..NumDelivers

\* ------------------------------------------------------------ value domains
\* Python's None where a str is optional.
None == "None"
\* Python's None where a WebSocket is optional (handles are 1..NumHandles).
NoWebSocket == 0
\* Session ids handed to set_latest_chainlit_session: any str, "" included.
SessionIds == {"", "s1", "s2"}
\* Keys a caller of the registry may use; the relay itself uses "default" only.
SlotKeys == {"default", "other"}
DefaultCaption == "Here's my working so far, can you help me?"
Captions == {"hi", DefaultCaption}
Filenames == {"a.png"}
\* Images pushed to the sketchpad: the bytes handed to
\* send_image_to_sketchpad_ws and the media type those bytes are of.
Payloads ==
    { [bytes |-> <<137, 80, 78, 71>>, mediaType |-> "image/png"],
      [bytes |-> <<255, 216>>, mediaType |-> "image/jpeg"],
      [bytes |-> <<71, 73, 70>>, mediaType |-> "image/gif"] }

VARIABLES
    sketchpad_connections,    \* state.py: Dict[str, WebSocket]
    latest_chainlit_session,  \* state.py: Optional[str]
    sessions,                 \* chat runtime: ids WebsocketSession.get_by_id resolves
    pipeline,                 \* chat runtime: messages submitted, per session id
    wsState,                  \* per websocket: position of websocket_endpoint
    wsFrames,                 \* per websocket: JSON frames transmitted to the client
    displaced,                \* history: handles overwritten in the registry by a later connect
    lastConnected,            \* history: the websocket that connected most recently
    removedSince,             \* history: a handler removed "default" after that connect
    dpc, dbytes, dkeys, dws, dframe, dresult, dlog,   \* send_image_to_sketchpad_ws calls
    dseen,                    \* history: the handles displaced when the call looked up
    dmedia,                   \* history: the media type of the pushed image
    dconnections,             \* per push: the dict object its local `connections` names
    dentries,                 \* history: the entries that object had when it was returned
    upc, utext, ufile, usid, ucontext, ulookups, uagent, uresult,  \* upload_image calls
    ubinds,                   \* per upload: calls of init_ws_context made by it
    tempfiles,                \* temporary files existing on disk (by creating upload)
    activations,              \* history: number of set_latest_chainlit_session calls
    lastActivated,            \* history: argument of the most recent call
    arrivalSession,           \* history: active session when the upload request arrived
    activatedInFlight,        \* history: last id activated while the upload waited to run
    beginActive,              \* history: latest_chainlit_session when the handler ran
    beginLive,                \* history: whether that id was a live session then
    apiLog                    \* history: the registry calls made one by one (SpecRegistry)

regVars == <<sketchpad_connections, latest_chainlit_session>>
chatVars == <<sessions, pipeline>>
wsVars == <<wsState, wsFrames, displaced, lastConnected, removedSince>>
dVars == <<dpc, dbytes, dkeys, dws, dframe, dresult, dlog, dseen, dmedia,
           dconnections, dentries>>
uVars == <<upc, utext, ufile, usid, ucontext, ulookups, uagent, uresult, ubinds,
           tempfiles>>
histVars == <<activations, lastActivated, arrivalSession, activatedInFlight,
              beginActive, beginLive, apiLog>>
vars == <<regVars, chatVars, wsVars, dVars, uVars, histVars>>

\* ------------------------------------------------------- state.py: registry
\* A first-write-wins setter: a later activation does not replace the recorded id.
set_latest_chainlit_session_keep_first(session_id) ==
    IF latest_chainlit_session = None THEN session_id ELSE latest_chainlit_session

\* set_latest_chainlit_session: the new value of latest_chainlit_session.
set_latest_chainlit_session(session_id) == session_id

get_latest_chainlit_session == latest_chainlit_session

\* A registration that keeps the handle already stored at the key (dict.setdefault).
add_sketchpad_connection_keep_existing(key, websocket) ==
    IF key \in DOMAIN sketchpad_connections
    THEN sketchpad_connections
    ELSE [k \in DOMAIN sketchpad_connections \cup {key} |->
             IF k = key THEN websocket ELSE sketchpad_connections[k]]

\* add_sketchpad_connection: the new value of sketchpad_connections.
add_sketchpad_connection(key, websocket) ==
    [k \in DOMAIN sketchpad_connections \cup {key} |->
        IF k = key THEN websocket ELSE sketchpad_connections[k]]

\* A removal that empties the whole registry (dict.clear()).
remove_sketchpad_connection_clear(key) == [k \in {} |-> NoWebSocket]

\* remove_sketchpad_connection: the new value of sketchpad_connections.
remove_sketchpad_connection(key) ==
    IF key \in DOMAIN sketchpad_connections
    THEN [k \in DOMAIN sketchpad_connections \ {key} |-> sketchpad_connections[k]]
    ELSE sketchpad_connections

get_sketchpad_connection(key) ==
    IF key \in DOMAIN sketchpad_connections
    THEN sketchpad_connections[key]
    ELSE NoWebSocket

\* `return sketchpad_connections`: the module-level dict object itself, no copy.
get_all_sketchpad_connections == "sketchpad_connections"

\* The entries a dict object holds in the current state.
Entries(dict_object) ==
    IF dict_object = "sketchpad_connections"
    THEN sketchpad_connections
    ELSE [k \in {} |-> NoWebSocket]

\* ------------------------------------------------------ main.py: image frame
B64Alphabet ==
    << "A", "B", "C", "D", "E", "F", "G", "H", "I", "J", "K", "L", "M",
       "N", "O", "P", "Q", "R", "S", "T", "U", "V", "W", "X", "Y", "Z",
       "a", "b", "c", "d", "e", "f", "g", "h", "i", "j", "k", "l", "m",
       "n", "o", "p", "q", "r", "s", "t", "u", "v", "w", "x", "y", "z",
       "0", "1", "2", "3", "4", "5", "6", "7", "8", "9", "+", "/" >>

\* The URL-safe alphabet ("-" and "_" for "+" and "/"), as urlsafe_b64encode uses.
B64CharUrlSafe(n) ==
    IF n = 62 THEN "-" ELSE IF n = 63 THEN "_" ELSE B64Alphabet[n + 1]

B64Char(n) == B64Alphabet[n + 1]

\* base64.b64encode(image_bytes).decode('utf-8'), one character per element.
RECURSIVE b64encode(_)
b64encode(bytes) ==
    IF Len(bytes) = 0 THEN <<>>
    ELSE IF Len(bytes) = 1 THEN
        LET n == bytes[1] * 65536
        IN  <<B64Char(n \div 262144), B64Char((n \div 4096) % 64), "=", "=">>
    ELSE IF Len(bytes) = 2 THEN
        LET n == bytes[1] * 65536 + bytes[2] * 256
        IN  <<B64Char(n \div 262144), B64Char((n \div 4096) % 64),
              B64Char((n \div 64) % 64), "=">>
    ELSE
        LET n == bytes[1] * 65536 + bytes[2] * 256 + bytes[3]
        IN  <<B64Char(n \div 262144), B64Char((n \div 4096) % 64),
              B64Char((n \div 64) % 64), B64Char(n % 64)>>
            \o b64encode(SubSeq(bytes, 4, Len(bytes)))

\* The JSON object handed to websocket.send_json.
ImageFrame(image_bytes) ==
    [type |-> "image",
     image |-> <<"data:image/png;base64,">> \o b64encode(image_bytes)]

NoFrame == [type |-> "none", image |-> <<>>]

\* ------------------------------------------------- main.py: upload results
NoResult == [key |-> "none", value |-> ""]
ErrNoSession ==
    [key |-> "error", value |-> "No chat session available. Please start a chat first."]
ErrNotFound == [key |-> "error", value |-> "Chat session not found"]
ImageReceived == [key |-> "message", value |-> "Image received"]
\* The handler ended by an exception nothing in upload_image catches.
Unhandled == [key |-> "exception", value |-> ""]

\* ------------------------------------------------------------------- Init
Init ==
    /\ sketchpad_connections = [k \in {} |-> NoWebSocket]
    /\ latest_chainlit_session = None
    /\ sessions = {}
    /\ pipeline = [s \in SessionIds |-> <<>>]
    /\ wsState = [h \in Handles |-> "new"]
    /\ wsFrames = [h \in Handles |-> <<>>]
    /\ displaced = {}
    /\ lastConnected = NoWebSocket
    /\ removedSince = FALSE
    /\ dpc = [d \in Delivers |-> "idle"]
    /\ dbytes = [d \in Delivers |-> <<>>]
    /\ dkeys = [d \in Delivers |-> {}]
    /\ dws = [d \in Delivers |-> NoWebSocket]
    /\ dframe = [d \in Delivers |-> NoFrame]
    /\ dresult = [d \in Delivers |-> "pending"]
    /\ dlog = [d \in Delivers |-> "none"]
    /\ dseen = [d \in Delivers |-> {}]
    /\ dmedia = [d \in Delivers |-> ""]
    /\ dconnections = [d \in Delivers |-> None]
    /\ dentries = [d \in Delivers |-> [k \in {} |-> NoWebSocket]]
    /\ upc = [u \in Uploads |-> "idle"]
    /\ utext = [u \in Uploads |-> ""]
    /\ ufile = [u \in Uploads |-> ""]
    /\ usid = [u \in Uploads |-> None]
    /\ ucontext = [u \in Uploads |-> None]
    /\ ulookups = [u \in Uploads |-> 0]
    /\ ubinds = [u \in Uploads |-> 0]
    /\ uagent = [u \in Uploads |-> "none"]
    /\ uresult = [u \in Uploads |-> NoResult]
    /\ tempfiles = {}
    /\ activations = 0
    /\ lastActivated = None
    /\ arrivalSession = [u \in Uploads |-> None]
    /\ activatedInFlight = [u \in Uploads |-> None]
    /\ beginActive = [u \in Uploads |-> "unread"]
    /\ beginLive = [u \in Uploads |-> FALSE]
    /\ apiLog = <<>>

\* ------------------------------------------- chat runtime and activation hook
\* Chat start: the runtime has the session live and the on-chat-start hook
\* records its id as the latest one.
onSessionStart(s) ==
    /\ activations < MaxActivations
    /\ sessions' = sessions \cup {s}
    /\ latest_chainlit_session' = set_latest_chainlit_session(s)
    /\ activations' = activations + 1
    /\ lastActivated' = s
    /\ activatedInFlight' =
           [u \in Uploads |-> IF upc[u] = "pending" THEN s ELSE activatedInFlight[u]]
    /\ UNCHANGED <<sketchpad_connections, pipeline, wsVars, dVars, uVars, arrivalSession,
                   beginActive, beginLive, apiLog>>

\* The chat connection of a live session closes: get_by_id no longer resolves it.
onSessionEnd(s) ==
    /\ s \in sessions
    /\ sessions' = sessions \ {s}
    /\ UNCHANGED <<regVars, pipeline, wsVars, dVars, uVars, histVars>>

\* --------------------------------------------- main.py: websocket_endpoint
\* A handler that stores each websocket under a key of its own.
ConnectionKeyPerSocket(websocket) == IF websocket = 1 THEN "default" ELSE "other"

\* The key websocket_endpoint stores its websocket under: the literal "default".
ConnectionKey(websocket) == "default"

\* accept() returns; the handle is stored at "default"; the receive loop starts.
WsConnect(h) ==
    /\ wsState[h] = "new"
    /\ sketchpad_connections' = add_sketchpad_connection(ConnectionKey(h), h)
    /\ displaced' = displaced \cup
           (IF "default" \in DOMAIN sketchpad_connections
            THEN {sketchpad_connections["default"]} ELSE {})
    /\ lastConnected' = h
    /\ removedSince' = FALSE
    /\ wsState' = [wsState EXCEPT ![h] = "receiving"]
    /\ UNCHANGED <<latest_chainlit_session, chatVars, wsFrames,
                   dVars, uVars, histVars>>

\* receive_text() returns a text frame, which is printed; the loop goes on and
\* nothing of the relay's state changes.
WsReceive(h) ==
    /\ wsState[h] = "receiving"
    /\ UNCHANGED vars

\* receive_text() raises WebSocketDisconnect: the handler removes "default".
WsDisconnect(h) ==
    /\ wsState[h] = "receiving"
    /\ sketchpad_connections' = remove_sketchpad_connection("default")
    /\ removedSince' = TRUE
    /\ wsState' = [wsState EXCEPT ![h] = "closed"]
    /\ UNCHANGED <<latest_chainlit_session, chatVars, wsFrames, displaced, lastConnected,
                   dVars, uVars, histVars>>

\* receive_text() raises an exception that is not WebSocketDisconnect (a binary
\* frame, a transport error): it leaves the handler, which removes nothing.
WsReceiveFault(h) ==
    /\ wsState[h] = "receiving"
    /\ wsState' = [wsState EXCEPT ![h] = "faulted"]
    /\ UNCHANGED <<regVars, chatVars, wsFrames, displaced, lastConnected, removedSince,
                   dVars, uVars, histVars>>

\* --------------------------------------- main.py: send_image_to_sketchpad_ws
\* A test that takes every looked-up value, None included, as a connection.
IsConnectionAlways(websocket) == TRUE

\* `if websocket:` on the value of get_sketchpad_connection.
IsConnection(websocket) == websocket # NoWebSocket

\* What the call ends with when the except clause is missing: the exception
\* leaves send_image_to_sketchpad_ws.
SendErrorPropagates == [pc |-> "raised", result |-> "exception", log |-> "none"]

\* `except Exception`: the error is printed and the function falls off its end.
SendErrorOutcome == [pc |-> "done", result |-> "None", log |-> "ERROR"]

\* An except clause that also drops the connection whose send failed.
ConnectionsAfterSendErrorDropped == remove_sketchpad_connection("default")

\* sketchpad_connections after the except clause: it prints and touches nothing.
ConnectionsAfterSendError == sketchpad_connections

\* The call up to `await websocket.send_json(...)`, or to its end when no
\* connection is stored at "default".
DeliverStart(d, image_bytes, media_type) ==
    /\ dpc[d] = "idle"
    /\ dmedia' = [dmedia EXCEPT ![d] = media_type]
    /\ dbytes' = [dbytes EXCEPT ![d] = image_bytes]
    /\ dseen' = [dseen EXCEPT ![d] = displaced]
    /\ LET connections == get_all_sketchpad_connections
           websocket == get_sketchpad_connection("default")
       IN  \* the keys printed as "Available connections"
           /\ dkeys' = [dkeys EXCEPT ![d] = DOMAIN Entries(connections)]
           /\ dentries' = [dentries EXCEPT ![d] = Entries(connections)]
           /\ IF IsConnection(websocket)
              THEN /\ dws' = [dws EXCEPT ![d] = websocket]
                   /\ dframe' = [dframe EXCEPT ![d] = ImageFrame(image_bytes)]
                   /\ dpc' = [dpc EXCEPT ![d] = "sending"]
                   /\ dconnections' = [dconnections EXCEPT ![d] = connections]
                   /\ UNCHANGED <<dresult, dlog>>
              ELSE /\ dlog' = [dlog EXCEPT ![d] = "FAILED"]
                   /\ dresult' = [dresult EXCEPT ![d] = "None"]
                   /\ dpc' = [dpc EXCEPT ![d] = "done"]
                   /\ UNCHANGED <<dws, dframe, dconnections>>
    /\ UNCHANGED <<regVars, chatVars, wsVars, uVars, histVars>>

\* send_json completes: the frame is on the wire of the looked-up connection.
DeliverSent(d) ==
    /\ dpc[d] = "sending"
    /\ dws[d] \in Handles
    /\ wsState[dws[d]] = "receiving"
    /\ wsFrames' = [wsFrames EXCEPT ![dws[d]] = Append(@, [by |-> d, frame |-> dframe[d]])]
    /\ dlog' = [dlog EXCEPT ![d] = "SUCCESS"]
    /\ dresult' = [dresult EXCEPT ![d] = "None"]
    /\ dpc' = [dpc EXCEPT ![d] = "done"]
    /\ dconnections' = [dconnections EXCEPT ![d] = None]
    /\ UNCHANGED <<regVars, chatVars, wsState, displaced, lastConnected, removedSince,
                   dbytes, dkeys, dws, dframe, dseen, dmedia, dentries, uVars, histVars>>

\* send_json raises (the connection closed, a transport error, no connection).
DeliverSendError(d) ==
    /\ dpc[d] = "sending"
    /\ dlog' = [dlog EXCEPT ![d] = SendErrorOutcome.log]
    /\ dresult' = [dresult EXCEPT ![d] = SendErrorOutcome.result]
    /\ dpc' = [dpc EXCEPT ![d] = SendErrorOutcome.pc]
    /\ dconnections' = [dconnections EXCEPT ![d] = None]
    /\ sketchpad_connections' = ConnectionsAfterSendError
    /\ UNCHANGED <<latest_chainlit_session, chatVars, wsVars, dbytes, dkeys, dws, dframe,
                   dseen, dmedia, dentries, uVars, histVars>>

\* ------------------------------------------------------ main.py: upload_image
\* A handler that uses the session that was active when the request arrived.
upload_session_id_at_arrival(u) == arrivalSession[u]

\* `chainlit_session_id = get_latest_chainlit_session()`, read when the handler runs.
upload_session_id(u) == get_latest_chainlit_session

\* A test that stops only the empty id and lets None through.
IsFalsyOnlyEmpty(v) == v = ""

\* `not chainlit_session_id` on an Optional[str]: None and "" are both falsy.
IsFalsy(v) == v = None \/ v = ""

\* WebsocketSession.get_by_id: the live session of that id, or None.
get_by_id(session_id) == IF session_id \in sessions THEN session_id ELSE None

\* cl.Image(name=file.filename, content=content, display="inline", size="large")
\* with its path set to the temporary file of the call.
ImageElement(u) ==
    [name |-> ufile[u], display |-> "inline", size |-> "large", path |-> u]

\* cl.Message(content=text, elements=[image_element])
UploadMessage(u) ==
    [content |-> utext[u], elements |-> <<ImageElement(u)>>, by |-> u]

\* A handler that answers once the message is sent, without awaiting main(message).
ResultReturnedAtSubmit(u) == ImageReceived

\* The result of the call while `await main(message)` has not returned: none yet.
ResultAfterSubmit(u) == NoResult

\* The POST /upload request arrives; the handler coroutine has not run yet.
UploadRequest(u, text, filename) ==
    /\ upc[u] = "idle"
    /\ upc' = [upc EXCEPT ![u] = "pending"]
    /\ utext' = [utext EXCEPT ![u] = text]
    /\ ufile' = [ufile EXCEPT ![u] = filename]
    /\ arrivalSession' = [arrivalSession EXCEPT ![u] = latest_chainlit_session]
    /\ UNCHANGED <<regVars, chatVars, wsVars, dVars, usid, ucontext, ulookups, uagent,
                   uresult, ubinds, tempfiles, activations, lastActivated, activatedInFlight,
                   beginActive, beginLive, apiLog>>

\* The handler from its first line to `await file.read()`: no await in between.
UploadBegin(u) ==
    /\ upc[u] = "pending"
    /\ LET chainlit_session_id == upload_session_id(u)
       IN  /\ usid' = [usid EXCEPT ![u] = chainlit_session_id]
           /\ IF IsFalsy(chainlit_session_id)
              THEN /\ uresult' = [uresult EXCEPT ![u] = ErrNoSession]
                   /\ upc' = [upc EXCEPT ![u] = "done"]
                   /\ UNCHANGED <<ulookups, ucontext, ubinds>>
              ELSE LET ws_session == get_by_id(chainlit_session_id)
                   IN  /\ ulookups' = [ulookups EXCEPT ![u] = @ + 1]
                       /\ IF ws_session = None
                          THEN /\ uresult' = [uresult EXCEPT ![u] = ErrNotFound]
                               /\ upc' = [upc EXCEPT ![u] = "done"]
                               /\ UNCHANGED <<ucontext, ubinds>>
                          ELSE \* init_ws_context(ws_session)
                               /\ ucontext' = [ucontext EXCEPT ![u] = ws_session]
                               /\ ubinds' = [ubinds EXCEPT ![u] = @ + 1]
                               /\ upc' = [upc EXCEPT ![u] = "reading"]
                               /\ UNCHANGED uresult
    /\ beginActive' = [beginActive EXCEPT ![u] = latest_chainlit_session]
    /\ beginLive' = [beginLive EXCEPT ![u] = latest_chainlit_session \in sessions]
    /\ UNCHANGED <<regVars, chatVars, wsVars, dVars, utext, ufile, uagent, tempfiles,
                   activations, lastActivated, arrivalSession, activatedInFlight, apiLog>>

\* file.read() returns; the image element and the temporary file (delete=False)
\* are made; message.send() returns: the message is in the bound session's
\* pipeline and main(message) starts.
UploadSubmit(u) ==
    /\ upc[u] = "reading"
    /\ tempfiles' = tempfiles \cup {u}
    /\ pipeline' = [pipeline EXCEPT ![ucontext[u]] = Append(@, UploadMessage(u))]
    /\ uagent' = [uagent EXCEPT ![u] = "running"]
    /\ uresult' = [uresult EXCEPT ![u] = ResultAfterSubmit(u)]
    /\ upc' = [upc EXCEPT ![u] = "processing"]
    /\ UNCHANGED <<regVars, sessions, wsVars, dVars, utext, ufile, usid, ucontext,
                   ulookups, ubinds, histVars>>

\* message.send() raises: the with block closes the file and the exception
\* leaves the handler.
UploadSubmitError(u) ==
    /\ upc[u] = "reading"
    /\ tempfiles' = tempfiles \cup {u}
    /\ uresult' = [uresult EXCEPT ![u] = Unhandled]
    /\ upc' = [upc EXCEPT ![u] = "done"]
    /\ UNCHANGED <<regVars, chatVars, wsVars, dVars, utext, ufile, usid, ucontext,
                   ulookups, ubinds, uagent, histVars>>

\* main(message) returns: the with block ends and the handler returns.
AgentReturn(u) ==
    /\ upc[u] = "processing"
    /\ uagent' = [uagent EXCEPT ![u] = "returned"]
    /\ uresult' = [uresult EXCEPT ![u] = ImageReceived]
    /\ upc' = [upc EXCEPT ![u] = "done"]
    /\ UNCHANGED <<regVars, chatVars, wsVars, dVars, utext, ufile, usid, ucontext,
                   ulookups, ubinds, tempfiles, histVars>>

\* main(message) raises: the exception leaves the handler.
AgentRaise(u) ==
    /\ upc[u] = "processing"
    /\ uagent' = [uagent EXCEPT ![u] = "raised"]
    /\ uresult' = [uresult EXCEPT ![u] = Unhandled]
    /\ upc' = [upc EXCEPT ![u] = "done"]
    /\ UNCHANGED <<regVars, chatVars, wsVars, dVars, utext, ufile, usid, ucontext,
                   ulookups, ubinds, tempfiles, histVars>>

\* ------------------------------------------- state.py called one call at a time
\* add_sketchpad_connection(key, websocket) called directly.
registerChannel(key, websocket) ==
    /\ Len(apiLog) < MaxRegistryCalls
    /\ sketchpad_connections' = add_sketchpad_connection(key, websocket)
    /\ apiLog' = Append(apiLog, [op |-> "add", key |-> key, ws |-> websocket,
                                 before |-> sketchpad_connections,
                                 after |-> sketchpad_connections'])
    /\ UNCHANGED <<latest_chainlit_session, chatVars, wsVars, dVars, uVars, activations,
                   lastActivated, arrivalSession, activatedInFlight, beginActive,
                   beginLive>>

\* remove_sketchpad_connection(key) called directly.
unregisterChannel(key) ==
    /\ Len(apiLog) < MaxRegistryCalls
    /\ sketchpad_connections' = remove_sketchpad_connection(key)
    /\ apiLog' = Append(apiLog, [op |-> "remove", key |-> key, ws |-> NoWebSocket,
                                 before |-> sketchpad_connections,
                                 after |-> sketchpad_connections'])
    /\ UNCHANGED <<latest_chainlit_session, chatVars, wsVars, dVars, uVars, activations,
                   lastActivated, arrivalSession, activatedInFlight, beginActive,
                   beginLive>>

\* ------------------------------------------------------------ specification
\* Chat sessions and uploads: the steps that read or write latest_chainlit_session.
NextUpload ==
    \/ \E s \in SessionIds : onSessionStart(s)
    \/ \E s \in SessionIds : onSessionEnd(s)
    \/ \E u \in Uploads, t \in Captions, f \in Filenames : UploadRequest(u, t, f)
    \/ \E u \in Uploads : UploadBegin(u)
    \/ \E u \in Uploads : UploadSubmit(u)
    \/ \E u \in Uploads : UploadSubmitError(u)
    \/ \E u \in Uploads : AgentReturn(u)
    \/ \E u \in Uploads : AgentRaise(u)

\* Sketchpad connections and image pushes: the steps that read or write
\* sketchpad_connections.
NextChannel ==
    \/ \E h \in Handles : WsConnect(h)
    \/ \E h \in Handles : WsReceive(h)
    \/ \E h \in Handles : WsDisconnect(h)
    \/ \E h \in Handles : WsReceiveFault(h)
    \/ \E d \in Delivers, p \in Payloads : DeliverStart(d, p.bytes, p.mediaType)
    \/ \E d \in Delivers : DeliverSent(d)
    \/ \E d \in Delivers : DeliverSendError(d)

Next == NextUpload \/ NextChannel

\* The whole relay.
Spec == Init /\ [][Next]_vars

\* The two halves share no variable (uploads never touch sketchpad_connections,
\* pushes never touch latest_chainlit_session), so each is also checked alone.
SpecUpload == Init /\ [][NextUpload]_vars

SpecChannel == Init /\ [][NextChannel]_vars

\* The connection table of state.py driven call by call, with any key and any handle.
NextRegistry ==
    \/ \E k \in SlotKeys, h \in Handles : registerChannel(k, h)
    \/ \E k \in SlotKeys : unregisterChannel(k)

SpecRegistry == Init /\ [][NextRegistry]_vars

\* ---------------------------------------------------------------- helpers
\* The messages the upload u has put into the pipeline of session s.
SubmittedBy(u, s) ==
    {i \in DOMAIN pipeline[s] : pipeline[s][i].by = u}

\* The frames the call d has transmitted on the websocket h.
FramesBy(d, h) ==
    {i \in DOMAIN wsFrames[h] : wsFrames[h][i].by = d}

\* ------------------------------------------------------------------ claims

\* C1: an upload whose handler had not yet run when a session was activated
\* binds its context to the session activated last while it waited, and its
\* message goes to that session's pipeline, not to the session that was active
\* when the request arrived.
C1_InFlightUploadBindsToNewestSession ==
    \A u \in Uploads :
        (activatedInFlight[u] # None /\ ucontext[u] # None) =>
            /\ ucontext[u] = activatedInFlight[u]
            /\ \A s \in SessionIds : SubmittedBy(u, s) # {} => s = activatedInFlight[u]

\* C1 witness: "s1" was active when the request arrived, "s2" was activated
\* before the handler ran, and the upload's message is in the pipeline of "s2".
C1_Witness ==
    \E u \in Uploads :
        /\ arrivalSession[u] = "s1"
        /\ activatedInFlight[u] = "s2"
        /\ ucontext[u] = "s2"
        /\ SubmittedBy(u, "s2") # {}

\* C2: every ended upload whose handler found an active session id recorded and
\* live has put exactly one message, with the caller's caption and one image
\* element, into that session's pipeline and has returned "Image received".
C2_UploadToLiveSessionSucceeds ==
    \A u \in Uploads :
        (upc[u] = "done" /\ beginActive[u] \in SessionIds /\ beginLive[u]) =>
            /\ uresult[u] = ImageReceived
            /\ Cardinality(SubmittedBy(u, beginActive[u])) = 1
            /\ \A i \in SubmittedBy(u, beginActive[u]) :
                   /\ pipeline[beginActive[u]][i].content = utext[u]
                   /\ Len(pipeline[beginActive[u]][i].elements) = 1
            /\ \A s \in SessionIds \ {beginActive[u]} : SubmittedBy(u, s) = {}

\* C3: an upload that ends while no session was ever activated returns the
\* "No chat session available" error and has looked up no session, bound no
\* context and submitted no message.
C3_NoActivationNoSubmission ==
    \A u \in Uploads :
        (upc[u] = "done" /\ activations = 0) =>
            /\ uresult[u] = ErrNoSession
            /\ ulookups[u] = 0
            /\ ucontext[u] = None
            /\ uagent[u] = "none"
            /\ \A s \in SessionIds : SubmittedBy(u, s) = {}

\* C3 witness: an upload has ended and no session was ever activated.
C3_Witness ==
    \E u \in Uploads : upc[u] = "done" /\ activations = 0

\* C4: an ended upload whose handler found an id recorded that was no longer a
\* live session has returned "Chat session not found", has submitted nothing,
\* and the recorded id is still the one of the latest activation.
C4_ClosedSessionNotFound ==
    \A u \in Uploads :
        (upc[u] = "done" /\ beginActive[u] \in SessionIds /\ ~beginLive[u]) =>
            /\ uresult[u] = ErrNotFound
            /\ \A s \in SessionIds : SubmittedBy(u, s) = {}
            /\ latest_chainlit_session = lastActivated

\* C5: after a websocket connects over another one (and until a handler removes
\* "default"), the lookup returns the one that connected last; a push that
\* starts after the displacement looks up and transmits to the registered
\* websocket only, never to a displaced one.
C5_LastConnectionWins ==
    /\ (lastConnected # NoWebSocket /\ ~removedSince) =>
           get_sketchpad_connection("default") = lastConnected
    /\ \A d \in Delivers :
           /\ dws[d] \notin dseen[d]
           /\ \A h \in Handles : FramesBy(d, h) # {} => (h = dws[d] /\ h \notin dseen[d])

\* C5 witness: a websocket was displaced, then a push started and its frame
\* went to the websocket that connected last.
C5_Witness ==
    \E d \in Delivers :
        /\ dseen[d] # {}
        /\ lastConnected \notin dseen[d]
        /\ FramesBy(d, lastConnected) # {}

C8_UploadFailuresAreJsonErrors ==
    \A u \in Uploads :
        upc[u] = "done" =>
            /\ uresult[u].key \in {"message", "error"}
            /\ uagent[u] = "raised" => uresult[u].key = "error"

C10_LastActivationWins ==
    /\ get_latest_chainlit_session = lastActivated
    /\ get_latest_chainlit_session = None <=> activations = 0

\* C10 witness: two activations with different ids happened, an upload and a
\* push have ended and a websocket was registered and removed.
C10_Witness ==
    /\ activations >= 2
    /\ lastActivated = "s2"
    /\ "s1" \in sessions
    /\ \E u \in Uploads : upc[u] = "done"
    /\ \E d \in Delivers : dpc[d] = "done"
    /\ \E h \in Handles : wsState[h] = "closed"

\* The value get_sketchpad_connection(key) returns when the registry is conns.
LookupIn(conns, key) == IF key \in DOMAIN conns THEN conns[key] ELSE NoWebSocket

\* C11: right after a registration at a key the lookup at that key returns the
\* registered handle, whatever was stored there before, and the other keys are
\* untouched; right after a removal at a key the lookup there returns None and
\* the other keys are untouched; a removal at a key that holds nothing leaves
\* the registry as it was.
C11_RegisterLookupUnregister ==
    \A i \in DOMAIN apiLog :
        LET c == apiLog[i]
        IN  /\ c.op = "add" => LookupIn(c.after, c.key) = c.ws
            /\ c.op = "remove" => LookupIn(c.after, c.key) = NoWebSocket
            /\ (c.op = "remove" /\ c.key \notin DOMAIN c.before) => c.after = c.before
            /\ \A k \in SlotKeys \ {c.key} : LookupIn(c.after, k) = LookupIn(c.before, k)
            /\ i = Len(apiLog) =>
                   get_sketchpad_connection(c.key) = LookupIn(c.after, c.key)

\* C11 witness: the calls made include a registration over another handle, a
\* removal at a key that held a handle, and a removal at an empty key while
\* another key held a handle.
C11_Witness ==
    /\ \E i \in DOMAIN apiLog :
           /\ apiLog[i].op = "add"
           /\ LookupIn(apiLog[i].before, apiLog[i].key) \notin {NoWebSocket, apiLog[i].ws}
    /\ \E i \in DOMAIN apiLog :
           /\ apiLog[i].op = "remove"
           /\ apiLog[i].key \in DOMAIN apiLog[i].before
    /\ \E i \in DOMAIN apiLog :
           /\ apiLog[i].op = "remove"
           /\ apiLog[i].key \notin DOMAIN apiLog[i].before
           /\ DOMAIN apiLog[i].before # {}

\* The value of a base64 character in the standard alphabet (64: not in it).
B64Index(c) ==
    IF \E i \in DOMAIN B64Alphabet : B64Alphabet[i] = c
    THEN (CHOOSE i \in DOMAIN B64Alphabet : B64Alphabet[i] = c) - 1
    ELSE 64

\* Standard base64 decoding of a sequence of characters, four at a time.
RECURSIVE B64Decode(_)
B64Decode(chars) ==
    IF Len(chars) < 4 THEN <<>>
    ELSE
        LET a == B64Index(chars[1])
            b == B64Index(chars[2])
            c == IF chars[3] = "=" THEN 0 ELSE B64Index(chars[3])
            e == IF chars[4] = "=" THEN 0 ELSE B64Index(chars[4])
            n == a * 262144 + b * 4096 + c * 64 + e
            three == <<n \div 65536, (n \div 256) % 256, n % 256>>
            kept == IF chars[3] = "=" THEN 1 ELSE IF chars[4] = "=" THEN 2 ELSE 3
        IN  SubSeq(three, 1, kept) \o B64Decode(SubSeq(chars, 5, Len(chars)))

\* The text before the base64 data in a data URI of the given media type.
DataUriPrefix(media_type) == "data:" \o media_type \o ";base64,"

C13_TempFileReleased ==
    \A u \in Uploads : upc[u] = "done" => u \notin tempfiles

C15_DisconnectedChannelDeregistered ==
    \A h \in Handles :
        wsState[h] \in {"closed", "faulted"} => get_sketchpad_connection("default") # h

\* C16: while a push holds the mapping it got from
\* get_all_sketchpad_connections, that mapping has the entries it had when it
\* was returned, whatever connects and disconnects ran in between.
C16_GetAllReturnsSnapshot ==
    \A d \in Delivers :
        dconnections[d] # None => Entries(dconnections[d]) = dentries[d]

\* C17: in every state of the relay sketchpad_connections holds at most one
\* entry, and an entry it holds is at key "default".
C17_AtMostTheDefaultEntry ==
    /\ Cardinality(DOMAIN sketchpad_connections) <= 1
    /\ DOMAIN sketchpad_connections \subseteq {"default"}

\* C17 witness: two websockets have connected, a session was activated, an
\* upload and a push have ended, and the table holds its one entry.
C17_Witness ==
    /\ displaced # {}
    /\ activations > 0
    /\ \E u \in Uploads : upc[u] = "done"
    /\ \E d \in Delivers : dpc[d] = "done"
    /\ DOMAIN sketchpad_connections = {"default"}

\* C18: while the websocket that connected most recently is still connected,
\* it is the one stored at "default".
C18_NewestConnectedIsRegistered ==
    (lastConnected \in Handles /\ wsState[lastConnected] = "receiving") =>
        get_sketchpad_connection("default") = lastConnected

\* C19: an upload answers "No chat session available" only when no
\* set_latest_chainlit_session call had been made before its handler ran.
C19_NoSessionErrorOnlyBeforeActivation ==
    \A u \in Uploads :
        uresult[u] = ErrNoSession => beginActive[u] = None

\* C20: a step of send_image_to_sketchpad_ws or of upload_image, on any of
\* their paths, changes neither latest_chainlit_session nor
\* sketchpad_connections; a failed send leaves the failed websocket stored.
C20_PushAndUploadLeaveRegistry ==
    [][ ((\E d \in Delivers : dpc'[d] # dpc[d]) \/ (\E u \in Uploads : upc'[u] # upc[u]))
            => /\ sketchpad_connections' = sketchpad_connections
               /\ latest_chainlit_session' = latest_chainlit_session ]_vars

\* C20 witness: a push whose send failed has ended and its websocket, still
\* connected, is still stored at "default"; an upload has ended as well.
C20_Witness ==
    /\ \E d \in Delivers :
           /\ dpc[d] = "done"
           /\ dlog[d] = "ERROR"
           /\ wsState[dws[d]] = "receiving"
           /\ get_sketchpad_connection("default") = dws[d]
    /\ \E u \in Uploads : upc[u] = "done" /\ uresult[u] = ImageReceived
    /\ latest_chainlit_session \in SessionIds

====
